---- MODULE Spec2Model ----
(***************************************************************************)
(* A model of zcant/core.pyx: the ZeroCross signal object (construction,   *)
(* slicing, windowing), the slope computation, the extraction thread       *)
(* (MainThread) and the Anabat writer thread (AnabatFileWriteThread).      *)
(*                                                                         *)
(* Times are integers (a fixed number of ticks per unit of time); a        *)
(* NumPy array is a sequence; None is a record with some = FALSE.          *)
(***************************************************************************)
EXTENDS Integers, Sequences, FiniteSets, TLC

VARIABLES
    zc,        \* the ZeroCross object the caller holds
    last,      \* the last operation applied to it, with its arguments
    mt,        \* the extraction threads (MainThread), by task
    pending,   \* the caller's event queue: the calls wx.CallAfter scheduled
    received,  \* the arguments parent_cb was called with, by task
    wsig,      \* the signal and metadata the caller saves
    wt,        \* the writer threads (AnabatFileWriteThread), by writer
    dirs,      \* the directories that exist
    sl         \* a call of _slopes: its arguments and its result

zcvars == <<zc, last>>

exvars == <<mt, pending, received>>

wrvars == <<wsig, wt, dirs>>

vars == <<zc, last, mt, pending, received, wsig, wt, dirs, sl>>

(***************************************************************************)
(* Bounds of the model.                                                    *)
(***************************************************************************)
MaxDots == 3

MaxTime == 2

MaxDur == 3

\* Ticks of the time axis per microsecond, where microseconds matter.
TicksPerUs == 2

FreqSet == {40, 50}

AmpSet == {9}

(***************************************************************************)
(* Helpers on sequences.                                                   *)
(***************************************************************************)
SeqsUpTo(S, n) == UNION {[1..k -> S] : k \in 0..n}

IsSorted(s) == \A i \in 1..(Len(s) - 1) : s[i] <= s[i + 1]

None == [some |-> FALSE, v |-> <<>>]

Some(s) == [some |-> TRUE, v |-> s]

\* Python's a[lo:hi] for a sequence a and integer bounds (negative bounds
\* count from the end, out-of-range bounds are clamped).
PyClamp(i, n) == IF i < 0 THEN (IF i + n < 0 THEN 0 ELSE i + n) ELSE (IF i > n THEN n ELSE i)

PySlice(a, lo, hi) ==
    LET n == Len(a)
        l == PyClamp(lo, n)
        h == PyClamp(hi, n)
    IN  IF l >= h THEN <<>> ELSE SubSeq(a, l + 1, h)

\* bisect.bisect (= bisect_right): the binary search of the standard library.
RECURSIVE BisectLoop(_, _, _, _)
BisectLoop(a, x, lo, hi) ==
    IF lo < hi
    THEN LET mid == (lo + hi) \div 2
         IN  IF x < a[mid + 1]
             THEN BisectLoop(a, x, lo, mid)
             ELSE BisectLoop(a, x, mid + 1, hi)
    ELSE lo

bisect(a, x) == BisectLoop(a, x, 0, Len(a))

\* np.insert(a, 0, v) and np.append(a, v)
np_insert0(a, v) == <<v>> \o a

np_append(a, v) == Append(a, v)

(***************************************************************************)
(* ZeroCross                                                               *)
(***************************************************************************)
\* ZeroCross.__init__: the two length checks; TRUE when it raises ValueError.
InitRaises(times, freqs, amplitudes) ==
    \/ Len(times) # Len(freqs)
    \/ (amplitudes.some /\ Len(times) # Len(amplitudes.v))

\* The object __init__ builds when it does not raise.
ZeroCross(times, freqs, amplitudes) ==
    [times |-> times, freqs |-> freqs, amplitudes |-> amplitudes]

supports_amplitude(z) == z.amplitudes.some

\* ZeroCross.__getitem__ with slice lo:hi
GetItem(z, lo, hi) ==
    LET amplitudes == IF supports_amplitude(z)
                      THEN Some(PySlice(z.amplitudes.v, lo, hi))
                      ELSE None
    IN  ZeroCross(PySlice(z.times, lo, hi), PySlice(z.freqs, lo, hi), amplitudes)

\* The branch of windowed and the index range it resolves (lines 90-95).
WinBranch(z, start, duration) ==
    LET n == Len(z.times)
    IN  IF z.times[n] - start >= duration THEN "normal"
        ELSE IF duration >= z.times[n] THEN "toobig"
        ELSE "eof"

WinRange(z, start, duration) ==
    LET n == Len(z.times)
        b == WinBranch(z, start, duration)
    IN  IF b = "normal"
        THEN <<bisect(z.times, start), bisect(z.times, start + duration)>>
        ELSE IF b = "toobig"
        THEN <<0, n - 1>>
        ELSE <<bisect(z.times, z.times[n] - duration), n - 1>>

\* Lines 100-102: the synthetic leading dot.
PatchLead_Always(s, start) ==
    [times |-> np_insert0(s.times, start),
     freqs |-> np_insert0(s.freqs, start),
     amplitudes |-> IF supports_amplitude(s)
                    THEN Some(np_insert0(s.amplitudes.v, start))
                    ELSE None]

PatchLead_TimesFreqsOnly(s, start) ==
    IF Len(s.times) = 0 \/ s.times[1] > start
    THEN [s EXCEPT !.times = np_insert0(s.times, start),
                   !.freqs = np_insert0(s.freqs, start)]
    ELSE s

PatchLead(s, start) ==
    IF Len(s.times) = 0 \/ s.times[1] > start
    THEN [times |-> np_insert0(s.times, start),
          freqs |-> np_insert0(s.freqs, start),
          amplitudes |-> IF supports_amplitude(s)
                         THEN Some(np_insert0(s.amplitudes.v, start))
                         ELSE None]
    ELSE s

\* Lines 103-105: the synthetic trailing dot.
PatchTrail(s, start, duration) ==
    IF s.times[Len(s.times)] < start + duration
    THEN [times |-> np_append(s.times, start + duration),
          freqs |-> np_append(s.freqs, 0),
          amplitudes |-> IF supports_amplitude(s)
                         THEN Some(np_append(s.amplitudes.v, 0))
                         ELSE None]
    ELSE s

\* ZeroCross.windowed
windowed(z, start, duration) ==
    IF Len(z.times) < 2
    THEN z
    ELSE LET r == WinRange(z, start, duration)
             s == GetItem(z, r[1], r[2])
         IN  PatchTrail(PatchLead(s, start), start, duration)

(***************************************************************************)
(* Actions on the signal object held by the caller.                        *)
(***************************************************************************)
ZCInit ==
    /\ zc = ZeroCross(<<>>, <<>>, None)
    /\ last = [op |-> "init"]

\* ZeroCross(times, freqs, amplitudes, metadata) as MainThread.run calls it on
\* the decoded arrays: a new object, or ValueError and no object.
Construct ==
    /\ last.op = "init"
    /\ \E times \in {s \in SeqsUpTo(0..MaxTime, MaxDots) : IsSorted(s)},
          nf \in 0..MaxDots, na \in 0..MaxDots, hasamp \in BOOLEAN :
         \E freqs \in [1..nf -> FreqSet], av \in [1..na -> AmpSet] :
           LET amplitudes == IF hasamp THEN Some(av) ELSE None
               call == [op |-> "construct", nt |-> Len(times), nf |-> nf,
                        na |-> IF hasamp THEN na ELSE -1]
           IN  IF InitRaises(times, freqs, amplitudes)
               THEN /\ last' = [call EXCEPT !.op = "ValueError"]
                    /\ UNCHANGED <<zc, exvars, wrvars, sl>>
               ELSE /\ zc' = ZeroCross(times, freqs, amplitudes)
                    /\ last' = call
                    /\ UNCHANGED <<exvars, wrvars, sl>>

\* zc[lo:hi]
Slice ==
    \E lo \in (0 - 1)..MaxDots, hi \in (0 - 1)..MaxDots :
        /\ last.op # "ValueError"
        /\ zc' = GetItem(zc, lo, hi)
        /\ last' = [op |-> "slice"]
        /\ UNCHANGED <<exvars, wrvars, sl>>

\* zc.windowed(start, duration)
Windowed ==
    \E start \in (0 - 1)..MaxTime, duration \in 0..MaxDur :
        /\ last.op # "ValueError"
        /\ Len(zc.times) <= MaxDots
        /\ zc' = windowed(zc, start, duration)
        /\ last' = [op |-> "windowed", src |-> zc, start |-> start,
                    duration |-> duration]
        /\ UNCHANGED <<exvars, wrvars, sl>>

NextZC == Construct \/ Slice \/ Windowed

(***************************************************************************)
(* MainThread: the extraction thread.                                      *)
(***************************************************************************)
Tasks == {1, 2}

\* File paths, as sequences of characters.
Paths ==
    { <<"a", ".", "z", "c">>,
      <<"a", ".", "Z", "C">>,
      <<"a", ".", "0", "#">>,
      <<"a", "#">>,
      <<"a", ".", "w", "a", "v">>,
      <<"a", ".", "W", "a", "v">>,
      <<"a", ".", "t", "x", "t">>,
      <<"a">>,
      <<".", "z", "c">>,
      <<"d", ".", "z", "c", "/", "a">> }

\* What a decoder may return: (times, freqs, amplitudes).
Decodable ==
    { <<<<0, 1>>, <<40, 50>>, Some(<<9, 9>>)>>,
      <<<<0, 1>>, <<40>>, None>>,
      <<<<0, 1>>, <<40, 50>>, Some(<<9>>)>> }

\* str.rfind, 1-based, 0 when the character does not occur.
RFind(p, c) ==
    LET I == {i \in 1..Len(p) : p[i] = c}
    IN  IF I = {} THEN 0 ELSE CHOOSE i \in I : \A j \in I : j <= i

\* os.path.splitext(path)[1]: from the last dot of the last component, unless
\* that component has only leading dots before it.
splitext_ext(p) ==
    LET sepIndex == RFind(p, "/")
        dotIndex == RFind(p, ".")
    IN  IF /\ dotIndex > sepIndex
           /\ \E i \in (sepIndex + 1)..(dotIndex - 1) : p[i] # "."
        THEN SubSeq(p, dotIndex, Len(p))
        ELSE <<>>

\* os.path.basename(path)
basename(p) == SubSeq(p, RFind(p, "/") + 1, Len(p))

LowerChar(c) ==
    CASE c = "Z" -> "z"
      [] c = "C" -> "c"
      [] c = "W" -> "w"
      [] OTHER -> c

\* str.lower
lower(p) == [i \in 1..Len(p) |-> LowerChar(p[i])]

\* Line 187: ext = os.path.splitext(path)[1].lower()
ext_no_lower(path) == splitext_ext(path)

ext_of(path) == lower(splitext_ext(path))

endswith(p, c) == Len(p) > 0 /\ p[Len(p)] = c

\* MainThread.extract: the decoder the path is dispatched to, "none" when the
\* method raises Exception('Unknown file type').
Dispatch(path) ==
    LET ext == ext_of(path)
    IN  IF endswith(ext, "#") \/ ext = <<".", "z", "c">> THEN "extract_anabat"
        ELSE IF ext = <<".", "w", "a", "v">> THEN "wav2zc"
        ELSE "none"

NoTask ==
    [pc |-> "idle", path |-> <<>>, filename |-> <<>>, decoder |-> "none",
     decoded |-> <<>>, caught |-> "none", result |-> <<>>]

ExInit ==
    /\ mt = [t \in Tasks |-> NoTask]
    /\ pending = <<>>
    /\ received = [t \in Tasks |-> <<>>]

\* MainThread.__init__: stores the arguments and starts the thread.
MTNew(t) ==
    /\ mt[t].pc = "idle"
    /\ \E path \in Paths :
         mt' = [mt EXCEPT ![t] = [NoTask EXCEPT !.pc = "run", !.path = path,
                                                !.filename = basename(path)]]
    /\ UNCHANGED <<zcvars, pending, received, wrvars, sl>>

\* run, lines 196-198: result = None, then self.extract(self.path): the
\* decoder returns its tuple or raises; an unknown extension raises.
MTExtract(t) ==
    /\ mt[t].pc = "run"
    /\ LET d == Dispatch(mt[t].path)
       IN  \/ /\ d # "none"
              /\ \E tup \in Decodable :
                   mt' = [mt EXCEPT ![t].pc = "wrap", ![t].decoder = d,
                                    ![t].decoded = <<tup>>]
           \/ /\ d # "none"
              /\ mt' = [mt EXCEPT ![t].pc = "except", ![t].decoder = d,
                                  ![t].caught = "DecodeFailure"]
           \/ /\ d = "none"
              /\ mt' = [mt EXCEPT ![t].pc = "except",
                                  ![t].caught = "Unknown file type"]
    /\ UNCHANGED <<zcvars, pending, received, wrvars, sl>>

\* run, lines 200-204: the metadata gets path and filename, and the ZeroCross
\* is constructed, which may raise ValueError.
MTWrap(t) ==
    /\ mt[t].pc = "wrap"
    /\ LET tup == mt[t].decoded[1]
       IN  IF InitRaises(tup[1], tup[2], tup[3])
           THEN mt' = [mt EXCEPT ![t].pc = "except", ![t].caught = "ValueError"]
           ELSE mt' = [mt EXCEPT ![t].pc = "callafter",
                                 ![t].result = <<ZeroCross(tup[1], tup[2], tup[3])>>]
    /\ UNCHANGED <<zcvars, pending, received, wrvars, sl>>

\* Where the thread goes once the except clause has logged the failure.
AfterExcept_Reraise == "dead"

AfterExcept == "callafter"

\* run, lines 205-206: except Exception: log.exception(...)
MTExcept(t) ==
    /\ mt[t].pc = "except"
    /\ mt' = [mt EXCEPT ![t].pc = AfterExcept]
    /\ UNCHANGED <<zcvars, pending, received, wrvars, sl>>

\* run, line 207: wx.CallAfter(self.parent_cb, result)
MTCallAfter(t) ==
    /\ mt[t].pc = "callafter"
    /\ pending' = Append(pending, [task |-> t, arg |-> mt[t].result])
    /\ mt' = [mt EXCEPT ![t].pc = "done"]
    /\ UNCHANGED <<zcvars, received, wrvars, sl>>

\* The caller's event loop runs the next scheduled call: parent_cb(result).
MainLoop ==
    /\ pending # <<>>
    /\ received' = [received EXCEPT ![Head(pending).task] =
                        Append(@, Head(pending).arg)]
    /\ pending' = Tail(pending)
    /\ UNCHANGED <<zcvars, mt, wrvars, sl>>

MTRun(t) == MTExtract(t) \/ MTWrap(t) \/ MTExcept(t) \/ MTCallAfter(t)

NextExtract == (\E t \in Tasks : MTNew(t) \/ MTRun(t)) \/ MainLoop

(***************************************************************************)
(* AnabatFileWriteThread: the writer thread.                               *)
(***************************************************************************)
Writers == {1, 2}

Signature == "Myotisoft ZCANT"

\* The values of metadata['note1']; NoKey when the mapping has no such key.
NoKey == [has |-> FALSE, v |-> ""]

Notes == {NoKey} \cup {[has |-> TRUE, v |-> n] : n \in {"", "Mylu", Signature}}

\* The directory part of fname; "" for a bare file name.
OutDirs == {"", "out"}

\* md.get('note1', '')
md_get_note1(md) == IF md.note1.has THEN md.note1.v ELSE ""

\* Lines 226-230: <<note1, note2>> as passed to write_header.
HeaderNotes_Overwrite(md) == <<Signature, "">>

HeaderNotes(md) ==
    LET note1 == md_get_note1(md)
    IN  IF note1 # "" THEN <<note1, Signature>> ELSE <<Signature, "">>

\* Lines 231-237: the GUANO block carries the amplitudes when there are any.
Guano(z) == IF supports_amplitude(z) THEN Some(z.amplitudes.v) ELSE None

\* int(v / q), truncated toward zero as astype(int) does.
TruncDiv(v, q) == IF v >= 0 THEN v \div q ELSE 0 - ((0 - v) \div q)

\* Lines 248-250: np.diff(times * 1000000).astype(int)
IntervalsUs(times) ==
    [i \in 1..(Len(times) - 1) |-> TruncDiv(times[i + 1] - times[i], TicksPerUs)]

\* AnabatFileWriter.__exit__: the state it leaves the file in, and whether it
\* suppresses the exception of the body.
FileAfterExit == "closed"

ExitSwallows == FALSE

\* The with statement of line 246: an exception in the body goes through
\* __exit__ before it leaves run.
OnBodyRaise_NoWith == "failed"

OnBodyRaise == "exit"

NoWriter ==
    [pc |-> "idle", outdir |-> "", note1 |-> "", note2 |-> "", guano |-> None,
     file |-> "none", header |-> FALSE, intervals |-> <<>>, raised |-> "none"]

WrIdle ==
    /\ wsig = [zc |-> ZeroCross(<<>>, <<>>, None), md |-> [note1 |-> NoKey]]
    /\ wt = [w \in Writers |-> NoWriter]
    /\ dirs = {}

WrInit ==
    /\ \E times \in {s \in SeqsUpTo(0..MaxTime, MaxDots) : IsSorted(s)},
          hasamp \in BOOLEAN, n \in Notes :
         wsig = [zc |-> ZeroCross(times, [i \in 1..Len(times) |-> 40],
                                  IF hasamp THEN Some([i \in 1..Len(times) |-> 9])
                                  ELSE None),
                 md |-> [note1 |-> n]]
    /\ wt = [w \in Writers |-> NoWriter]
    /\ dirs \in SUBSET {"out"}

\* AnabatFileWriteThread.__init__: stores the arguments and starts the thread.
WTNew(w) ==
    /\ wt[w].pc = "idle"
    /\ \E d \in OutDirs : wt' = [wt EXCEPT ![w].pc = "run", ![w].outdir = d]
    /\ UNCHANGED <<zcvars, exvars, wsig, dirs, sl>>

\* run, lines 223-241: header fields, GUANO block, outdir.
WTPrepare(w) ==
    /\ wt[w].pc = "run"
    /\ wt' = [wt EXCEPT ![w].pc = "checkdir",
                        ![w].note1 = HeaderNotes(wsig.md)[1],
                        ![w].note2 = HeaderNotes(wsig.md)[2],
                        ![w].guano = Guano(wsig.zc)]
    /\ UNCHANGED <<zcvars, exvars, wsig, dirs, sl>>

\* run, line 242: if not os.path.exists(outdir)
WTCheckDir(w) ==
    /\ wt[w].pc = "checkdir"
    /\ wt' = [wt EXCEPT ![w].pc = IF wt[w].outdir \in dirs THEN "open" ELSE "makedirs"]
    /\ UNCHANGED <<zcvars, exvars, wsig, dirs, sl>>

\* run, line 244: os.makedirs(outdir) raises OSError when the directory
\* exists by now, and for the empty name.
WTMakeDirs(w) ==
    /\ wt[w].pc = "makedirs"
    /\ IF wt[w].outdir = "" \/ wt[w].outdir \in dirs
       THEN /\ wt' = [wt EXCEPT ![w].pc = "failed", ![w].raised = "OSError"]
            /\ UNCHANGED dirs
       ELSE /\ dirs' = dirs \cup {wt[w].outdir}
            /\ wt' = [wt EXCEPT ![w].pc = "open"]
    /\ UNCHANGED <<zcvars, exvars, wsig, sl>>

\* run, line 246: AnabatFileWriter(self.fname) and __enter__ open the file,
\* or fail to.
WTOpen(w) ==
    /\ wt[w].pc = "open"
    /\ \/ wt' = [wt EXCEPT ![w].pc = "header", ![w].file = "open"]
       \/ wt' = [wt EXCEPT ![w].pc = "failed", ![w].raised = "IOError"]
    /\ UNCHANGED <<zcvars, exvars, wsig, dirs, sl>>

\* run, line 247: out.write_header(...), which may fail.
WTWriteHeader(w) ==
    /\ wt[w].pc = "header"
    /\ \/ wt' = [wt EXCEPT ![w].pc = "body", ![w].header = TRUE]
       \/ wt' = [wt EXCEPT ![w].pc = OnBodyRaise, ![w].raised = "IOError"]
    /\ UNCHANGED <<zcvars, exvars, wsig, dirs, sl>>

\* run, lines 248-251: the intervals and out.write_intervals, which may fail.
WTWriteIntervals(w) ==
    /\ wt[w].pc = "body"
    /\ \/ wt' = [wt EXCEPT ![w].pc = "exit",
                           ![w].intervals = IntervalsUs(wsig.zc.times)]
       \/ wt' = [wt EXCEPT ![w].pc = OnBodyRaise, ![w].raised = "IOError"]
    /\ UNCHANGED <<zcvars, exvars, wsig, dirs, sl>>

\* The end of the with block: __exit__ runs, then the exception, if any and
\* not suppressed, leaves run.
WTExit(w) ==
    /\ wt[w].pc = "exit"
    /\ wt' = [wt EXCEPT ![w].file = FileAfterExit,
                        ![w].pc = IF wt[w].raised = "none" \/ ExitSwallows
                                  THEN "done" ELSE "failed"]
    /\ UNCHANGED <<zcvars, exvars, wsig, dirs, sl>>

WTRun(w) ==
    \/ WTPrepare(w) \/ WTCheckDir(w) \/ WTMakeDirs(w) \/ WTOpen(w)
    \/ WTWriteHeader(w) \/ WTWriteIntervals(w) \/ WTExit(w)

\* One write task.
NextWrite == WTNew(1) \/ WTRun(1)

\* Several write tasks at once.
NextWriters == \E w \in Writers : WTNew(w) \/ WTRun(w)

(***************************************************************************)
(* _slopes: slope values in octaves per second.                            *)
(*                                                                         *)
(* A floating-point value is a record: a finite rational n/d (d > 0), or   *)
(* one of nan, +inf, -inf.                                                 *)
(***************************************************************************)
Fin(n, d) == [k |-> "fin", n |-> n, d |-> d]

NaN == [k |-> "nan", n |-> 0, d |-> 1]

PInf == [k |-> "pinf", n |-> 0, d |-> 1]

NInf == [k |-> "ninf", n |-> 0, d |-> 1]

Zero == Fin(0, 1)

IsNaN(a) == a.k = "nan"

\* log2 of a power of two
RECURSIVE Log2Int(_)
Log2Int(y) == IF y <= 1 THEN 0 ELSE 1 + Log2Int(y \div 2)

\* np.log2: nan below zero, -inf at zero
np_log2(y) == IF y < 0 THEN NaN ELSE IF y = 0 THEN NInf ELSE Fin(Log2Int(y), 1)

\* a - b
XSub(a, b) ==
    IF IsNaN(a) \/ IsNaN(b) THEN NaN
    ELSE IF a.k = "fin" /\ b.k = "fin" THEN Fin(a.n * b.d - b.n * a.d, a.d * b.d)
    ELSE IF a.k = "fin" THEN (IF b.k = "pinf" THEN NInf ELSE PInf)
    ELSE IF a.k = b.k THEN NaN
    ELSE a

\* a / dx for an integer time difference dx
XDiv(a, dx) ==
    IF IsNaN(a) THEN NaN
    ELSE IF a.k = "fin"
    THEN IF dx = 0
         THEN (IF a.n = 0 THEN NaN ELSE IF a.n > 0 THEN PInf ELSE NInf)
         ELSE IF dx > 0 THEN Fin(a.n, a.d * dx) ELSE Fin(0 - a.n, a.d * (0 - dx))
    ELSE IF dx >= 0 THEN a
    ELSE IF a.k = "pinf" THEN NInf ELSE PInf

\* np.abs
XAbs(a) ==
    IF a.k = "fin" THEN Fin(IF a.n < 0 THEN 0 - a.n ELSE a.n, a.d)
    ELSE IF IsNaN(a) THEN NaN
    ELSE PInf

\* a > m, for an integer m
XGt(a, m) ==
    IF a.k = "fin" THEN a.n > m * a.d
    ELSE a.k = "pinf"

DefaultMaxSlope == 5000

\* Lines 151-156: the frequencies in octaves.
Octaves(y) ==
    IF \A i \in 1..Len(y) : y[i] = 0
    THEN [i \in 1..Len(y) |-> Fin(y[i], 1)]
    ELSE [i \in 1..Len(y) |-> IF IsNaN(np_log2(y[i])) THEN Zero ELSE np_log2(y[i])]

\* Line 157: np.diff(y_octaves) / np.diff(x)
DiffQuot(x, yo) ==
    [i \in 1..(Len(x) - 1) |-> XDiv(XSub(yo[i + 1], yo[i]), x[i + 1] - x[i])]

\* Line 162: slopes[slopes > max_slope] = 0.0
ClipSteep(s, max_slope) ==
    [i \in 1..Len(s) |-> IF XGt(s[i], max_slope) THEN Zero ELSE s[i]]

\* Line 163: slopes[np.isnan(slopes)] = 0.0
ZeroNaN_Missing(s) == s

ZeroNaN(s) == [i \in 1..Len(s) |-> IF IsNaN(s[i]) THEN Zero ELSE s[i]]

_slopes(x, y, max_slope) ==
    IF Len(x) = 0 \/ Len(y) = 0 THEN <<>>
    ELSE IF Len(x) = 1 THEN <<Zero>>
    ELSE LET d == DiffQuot(x, Octaves(y))
             padded == Append(d, d[Len(d)])
             slopes == [i \in 1..Len(padded) |-> XAbs(padded[i])]
         IN  ZeroNaN(ClipSteep(slopes, max_slope))

FreqVals == {0 - 1, 0, 1, 4}

MaxSlopes == {1, 2, DefaultMaxSlope}

SlIdle ==
    sl = [x |-> <<>>, y |-> <<>>, max_slope |-> DefaultMaxSlope, out |-> <<>>,
          done |-> FALSE]

SlInit ==
    \E x \in {s \in SeqsUpTo(0..MaxTime, MaxDots) : IsSorted(s)}, m \in MaxSlopes :
      \E y \in [1..Len(x) -> FreqVals] :
        sl = [x |-> x, y |-> y, max_slope |-> m, out |-> <<>>, done |-> FALSE]

\* slopes = _slopes(times, freqs, max_slope)
ComputeSlopes ==
    /\ ~sl.done
    /\ sl' = [sl EXCEPT !.out = _slopes(sl.x, sl.y, sl.max_slope), !.done = TRUE]
    /\ UNCHANGED <<zcvars, exvars, wrvars>>

NextSlopes == ComputeSlopes

(***************************************************************************)
(* Specifications: one per component, each with the others at rest, and    *)
(* the composition of all of them.                                         *)
(***************************************************************************)
InitRest == ZCInit /\ ExInit /\ WrIdle /\ SlIdle

SpecZC == InitRest /\ [][NextZC]_vars

SpecExtract == InitRest /\ [][NextExtract]_vars

\* A started thread is scheduled until it ends, and the event loop keeps running.
SpecExtractFair ==
    /\ SpecExtract
    /\ \A t \in Tasks : WF_vars(MTRun(t))
    /\ WF_vars(MainLoop)

InitWrite == ZCInit /\ ExInit /\ WrInit /\ SlIdle

SpecWrite == InitWrite /\ [][NextWrite]_vars

\* Several write tasks started by the caller while no directory exists yet.
SpecWriters == InitRest /\ [][NextWriters]_vars

InitSlopes == ZCInit /\ ExInit /\ WrIdle /\ SlInit

SpecSlopes == InitSlopes /\ [][NextSlopes]_vars

Init == ZCInit /\ ExInit /\ WrInit /\ SlInit

Next == NextZC \/ NextExtract \/ NextWriters \/ NextSlopes

Spec == Init /\ [][Next]_vars

(***************************************************************************)
(* Claims about windowing, slicing and construction.                       *)
(***************************************************************************)
\* The last operation was a window over a signal of at least 2 dots with
\* ascending times.
WindowedCase ==
    /\ last.op = "windowed"
    /\ Len(last.src.times) >= 2
    /\ IsSorted(last.src.times)

\* The dots the last window took from its source (line 97).
Taken ==
    LET r == WinRange(last.src, last.start, last.duration)
    IN  GetItem(last.src, r[1], r[2])

\* The dots of z at the indices in I, in order.
RECURSIVE Pick(_, _, _)
Pick(z, I, i) ==
    IF i > Len(z.times) THEN <<>>
    ELSE (IF i \in I THEN <<<<z.times[i], z.freqs[i]>>>> ELSE <<>>) \o Pick(z, I, i + 1)

Dots(z) == Pick(z, 1..Len(z.times), 1)

\* C1: for every signal with at least 2 dots and ascending times and every
\* (start, duration), the window's first time is start and its last time is
\* start + duration, in the normal, oversized-window and end-of-file branches.
C1_BoundaryTimes ==
    WindowedCase =>
        /\ zc.times[1] = last.start
        /\ zc.times[Len(zc.times)] = last.start + last.duration

\* C4: no ZeroCross with disagreeing lengths exists: a construction with
\* len(times) # len(freqs), or with amplitudes and len(times) # len(amplitudes),
\* raises and yields no object, and every object reached by slices and windows
\* (edge patching included) has equal lengths.
C4_LengthsAgree ==
    /\ Len(zc.times) = Len(zc.freqs)
    /\ (supports_amplitude(zc) => Len(zc.times) = Len(zc.amplitudes.v))
    /\ (last.op \in {"construct", "ValueError"} =>
           (last.op = "ValueError" <=>
              (last.nt # last.nf \/ (last.na >= 0 /\ last.nt # last.na))))
    /\ (last.op = "ValueError" => zc = ZeroCross(<<>>, <<>>, None))

\* A window over a signal with amplitudes that got both synthetic dots.
C4_Witness ==
    /\ WindowedCase
    /\ supports_amplitude(zc)
    /\ Len(zc.times) = Len(Taken.times) + 2
    /\ Len(Taken.times) >= 1

\* C9: in the normal branch the dots taken from the source are exactly those
\* with start <= t < start + duration (a dot at start is kept with its own
\* frequency, a dot at start + duration is left out).
C9_HalfOpenRange ==
    (WindowedCase /\ WinBranch(last.src, last.start, last.duration) = "normal") =>
        Dots(Taken) =
            Pick(last.src,
                 {i \in 1..Len(last.src.times) :
                    /\ last.start <= last.src.times[i]
                    /\ last.src.times[i] < last.start + last.duration}, 1)

\* C10: in the oversized-window branch the dots taken are the full signal, and
\* in the end-of-file branch they run from the first dot at or after
\* last_time - duration through the last dot inclusive.
C10_LastDotTaken ==
    LET src == last.src
        n == Len(src.times)
        b == WinBranch(src, last.start, last.duration)
    IN  (WindowedCase /\ b # "normal") =>
          Dots(Taken) =
            Pick(src,
                 {i \in 1..n :
                    b = "eof" => src.times[i] >= src.times[n] - last.duration}, 1)

(***************************************************************************)
(* Claims about the extraction thread.                                     *)
(***************************************************************************)
\* The arguments of the calls task t has scheduled so far, delivered or not.
ScheduledArgs(t) ==
    {pending[i].arg : i \in {j \in 1..Len(pending) : pending[j].task = t}}
        \cup {received[t][i] : i \in 1..Len(received[t])}

SchedCount(t) ==
    Cardinality({j \in 1..Len(pending) : pending[j].task = t}) + Len(received[t])

\* Decoding returned and the construction on its tuple succeeded.
DecodedAndBuilt(t) ==
    /\ mt[t].decoded # <<>>
    /\ Len(mt[t].decoded[1][1]) = Len(mt[t].decoded[1][2])
    /\ (mt[t].decoded[1][3].some =>
            Len(mt[t].decoded[1][1]) = Len(mt[t].decoded[1][3].v))

C2_Safe ==
    \A t \in Tasks :
        /\ SchedCount(t) <= 1
        /\ mt[t].pc # "dead"
        /\ (mt[t].pc = "done" => SchedCount(t) = 1)
        /\ \A a \in ScheduledArgs(t) :
              IF DecodedAndBuilt(t)
              THEN a = <<ZeroCross(mt[t].decoded[1][1], mt[t].decoded[1][2],
                                   mt[t].decoded[1][3])>>
              ELSE a = <<>>

\* C2: every constructed extraction task eventually schedules its callback
\* exactly once, whether the decode succeeds or fails, with a ZeroCross when
\* decoding and construction both succeeded and an absent result otherwise,
\* and no failure escapes the task.
C2_CallbackOnce ==
    /\ []C2_Safe
    /\ \A t \in Tasks : (mt[t].pc # "idle") ~> (SchedCount(t) = 1)

\* One task failed in its decoder and one succeeded, and both callbacks ran.
C2_Witness ==
    \E t1, t2 \in Tasks :
        /\ mt[t1].caught = "DecodeFailure"
        /\ received[t1] = << <<>> >>
        /\ DecodedAndBuilt(t2)
        /\ Len(received[t2]) = 1
        /\ received[t2][1] # <<>>

\* The lower-cased extension of a path, as the claim reads it.
LowerExt(path) == lower(splitext_ext(path))

\* C3: the decoder is picked from the lower-cased extension only: ending in
\* '#' or equal to '.zc' -> the binary-format decoder, '.wav' -> the waveform
\* converter, anything else -> neither, an unsupported-file error that reaches
\* the callback as an absent result.
C3_DispatchByExtension ==
    \A t \in Tasks :
        mt[t].pc \notin {"idle", "run"} =>
            LET e == LowerExt(mt[t].path)
                anabat == endswith(e, "#") \/ e = <<".", "z", "c">>
                wav == e = <<".", "w", "a", "v">>
            IN  /\ (mt[t].decoder = "extract_anabat") <=> anabat
                /\ (mt[t].decoder = "wav2zc") <=> (~anabat /\ wav)
                /\ (~anabat /\ ~wav) =>
                      /\ mt[t].decoder = "none"
                      /\ mt[t].caught = "Unknown file type"
                      /\ ScheduledArgs(t) \subseteq {<<>>}
                      /\ (mt[t].pc = "done" => SchedCount(t) = 1)

\* An upper-case '.ZC' went to the binary decoder, and a '.txt' file was
\* reported to its callback as an absent result.
C3_Witness ==
    \E t1, t2 \in Tasks :
        /\ mt[t1].path = <<"a", ".", "Z", "C">>
        /\ mt[t1].decoder = "extract_anabat"
        /\ mt[t2].path = <<"a", ".", "t", "x", "t">>
        /\ received[t2] = << <<>> >>

(***************************************************************************)
(* Claims about the writer thread.                                         *)
(***************************************************************************)
\* The first note of the source metadata, "" when there is none.
SourceNote1 == IF wsig.md.note1.has THEN wsig.md.note1.v ELSE ""

\* Writer w has computed its header fields.
Prepared(w) == wt[w].pc \notin {"idle", "run"}

\* In how many of the two note fields of w the signature stands.
SignatureFields(w) ==
    (IF wt[w].note1 = Signature THEN 1 ELSE 0) + (IF wt[w].note2 = Signature THEN 1 ELSE 0)

NotesBySource(w) ==
    /\ (SourceNote1 # "" => wt[w].note1 = SourceNote1 /\ wt[w].note2 = Signature)
    /\ (SourceNote1 = "" => wt[w].note1 = Signature /\ wt[w].note2 = "")

\* C5 as stated: the two note fields follow the source's first note, and the
\* signature stands in exactly one of the two fields.
C5_SignatureInExactlyOne ==
    \A w \in Writers :
        Prepared(w) => NotesBySource(w) /\ SignatureFields(w) = 1

\* C5 (amended): the two note fields follow the source's first note only: a
\* non-empty note1 is written unchanged with the signature as note2, an empty
\* or missing one gives the signature as note1 and an empty note2; the
\* signature stands in exactly one of the two fields unless the source note1
\* is itself the signature, and then in both.
C5_NotesBySource ==
    \A w \in Writers :
        Prepared(w) =>
            /\ NotesBySource(w)
            /\ SignatureFields(w) = (IF SourceNote1 = Signature THEN 2 ELSE 1)

\* A header was written for a source with a note of its own.
C5_Witness ==
    /\ wt[1].header
    /\ SourceNote1 = "Mylu"
    /\ wt[1].note1 = "Mylu"
    /\ wt[1].note2 = Signature

RECURSIVE SumTo(_, _)
SumTo(s, k) == IF k = 0 THEN 0 ELSE s[k] + SumTo(s, k - 1)

Abs(v) == IF v < 0 THEN 0 - v ELSE v

\* C6: for n dots the writer emits n-1 intervals, each the inter-dot
\* difference in microseconds truncated toward zero, and accumulating the
\* written intervals recovers every time, relative to the first dot, with an
\* error below one microsecond.
C6_RoundTripTimes ==
    \A w \in Writers :
        (wt[w].pc \in {"exit", "done"} /\ wt[w].raised = "none"
            /\ Len(wsig.zc.times) >= 1) =>
            LET t == wsig.zc.times
                iv == wt[w].intervals
            IN  /\ Len(iv) = Len(t) - 1
                /\ \A i \in 1..Len(iv) :
                      /\ iv[i] * TicksPerUs <= t[i + 1] - t[i]
                      /\ t[i + 1] - t[i] < (iv[i] + 1) * TicksPerUs
                /\ \A k \in 1..Len(t) :
                      Abs((t[k] - t[1]) - TicksPerUs * SumTo(iv, k - 1)) < TicksPerUs

\* C8: once the destination file was opened it is closed on every exit path:
\* when the task has ended, with write_header and write_intervals completed
\* or one of them failed, the file is not open, and a failure has left run.
C8_ClosedOnEveryExit ==
    \A w \in Writers :
        wt[w].pc \in {"done", "failed"} =>
            /\ wt[w].file # "open"
            /\ (wt[w].pc = "done" <=> wt[w].raised = "none")
            /\ (wt[w].pc = "done" => wt[w].file = "closed")

\* write_intervals failed after the header was written; the file is closed.
C8_Witness ==
    /\ wt[1].pc = "failed"
    /\ wt[1].header
    /\ wt[1].raised = "IOError"
    /\ wt[1].file = "closed"

(***************************************************************************)
(* Claims about _slopes.                                                   *)
(***************************************************************************)
\* C7: for equal-length (times, freqs) with at least 2 dots the result has
\* the same length and every value is non-negative, finite and not greater
\* than max_slope, zero frequencies and repeated times included.
C7_SlopesInRange ==
    (sl.done /\ Len(sl.x) >= 2) =>
        /\ Len(sl.out) = Len(sl.x)
        /\ \A i \in 1..Len(sl.out) :
              /\ sl.out[i].k = "fin"
              /\ sl.out[i].n >= 0
              /\ sl.out[i].n <= sl.max_slope * sl.out[i].d

\* A call with a zero frequency among others, a repeated time, and a slope
\* that is not zero.
C7_Witness ==
    /\ sl.done
    /\ \E i \in 1..Len(sl.y) : sl.y[i] = 0
    /\ \E i \in 1..Len(sl.y) : sl.y[i] > 0
    /\ \E i \in 1..(Len(sl.x) - 1) : sl.x[i] = sl.x[i + 1]
    /\ \E i \in 1..Len(sl.out) : sl.out[i].n > 0

(***************************************************************************)
(* Claims about concurrent write tasks.                                    *)
(***************************************************************************)
\* Writer w has left the directory step of run (lines 242-244) behind it.
PastDirStep(w) == wt[w].pc \in {"open", "header", "body", "exit", "done"}

\* Every write task was started on a file of the directory "out", which did
\* not exist when the first of them started.
SameNewDir == \A w \in Writers : wt[w].pc # "idle" /\ wt[w].outdir = "out"

\* C11: directory creation tolerates concurrent creation: for every
\* interleaving of two write tasks whose files lie in the same directory that
\* does not exist yet, neither fails at the directory-creation step, the
\* directory exists afterwards, and both go on to open their own file.
C11_ConcurrentMakedirs ==
    SameNewDir =>
        \A w \in Writers :
            /\ wt[w].raised # "OSError"
            /\ (PastDirStep(w) => "out" \in dirs)
            /\ (wt[w].pc \notin {"run", "checkdir", "makedirs"} =>
                    PastDirStep(w) \/ wt[w].raised = "IOError")

(***************************************************************************)
(* Claims about the order of times.                                        *)
(***************************************************************************)
\* C12: windowing preserves the order its binary search relies on: for a
\* signal with non-decreasing times and any (start, duration) with
\* duration >= 0, the times of the window, synthetic leading and trailing dots
\* included, are non-decreasing, so the result of any sequence of window
\* operations is again a valid input to window.
C12_WindowKeepsOrder ==
    /\ IsSorted(zc.times)
    /\ (last.op = "windowed" => IsSorted(last.src.times) /\ last.duration >= 0)

\* A window over the result of an earlier window (its last time lies beyond
\* the constructed signals) that got both synthetic dots around dots it took.
C12_Witness ==
    /\ WindowedCase
    /\ last.src.times[Len(last.src.times)] > MaxTime
    /\ Len(Taken.times) >= 1
    /\ zc.times = <<last.start>> \o Taken.times \o <<last.start + last.duration>>

====
